---- MODULE Spec2Model ----
(***************************************************************************)
(* The wheel server: src/server.js (spin coordinator, HTTP handlers,       *)
(* timers), src/services/wheelLogic.js (weighted selection with cooldown,  *)
(* history ledger, cumulative total), src/services/helius.js (segment      *)
(* builder) and src/services/pumpfun.js (claim and hop-transfer chain).    *)
(*                                                                         *)
(* Node runs one callback at a time, so every action below is one          *)
(* callback run from its start to its next await (or its end); an await    *)
(* on an external call is a position of a task, and the call's result is   *)
(* the input of the action that resumes it.                                *)
(*                                                                         *)
(* SOL amounts are integers in micro-SOL (0.001 SOL = 1000).  A nullable   *)
(* field is the empty sequence when null and a one-element sequence        *)
(* otherwise.                                                              *)
(***************************************************************************)
EXTENDS Integers, Sequences, FiniteSets, TLC

VARIABLES
    currentHolders,          \* server.js:21
    currentWheelData,        \* server.js:22
    lastSpinTime,            \* server.js:23
    isSpinning,              \* server.js:24
    lastWinner,              \* server.js:25
    creatorBalance,          \* server.js:26
    feeClaimEnabled,         \* server.js:27
    spinHistory,             \* wheelLogic.js:9
    totalFeesSentPersistent, \* wheelLogic.js:10
    recentWinners,           \* wheelLogic.js:14
    tasks,                   \* pending performSpin timeout callbacks (server.js:196)
    events,                  \* spin messages handed to broadcast since the latest spinStart
    holdersUpdate,           \* the latest holdersUpdate message handed to broadcast
    response,                \* the last response of POST /api/spin (server.js:105)
    transfers,               \* transfers handed to sendAndConfirmTransaction since the latest spinStart
    nDistCalls,              \* claimAndDistribute calls since the latest spinStart
    paidToWinners,           \* sum of the confirmed hop2-to-winner transfers
    loadedTotal,             \* the total loadHistory found at start-up
    nSpins,                  \* performSpin calls that passed the segment check
    drawLog,                 \* the winners of the last draws of selectWinner and the pool of the latest
    fetches,                 \* the getTokenHolders calls of refreshHolders, in the order they started
    now,                     \* Date.now(), in units of half a spin interval
    chain,                   \* the operator's balance on chain and the fees waiting in the creator vault
    hops                     \* the hop accounts of transferWithHops, in lamports

vars == <<currentHolders, currentWheelData, lastSpinTime, isSpinning, lastWinner,
          creatorBalance, feeClaimEnabled, spinHistory, totalFeesSentPersistent,
          recentWinners, tasks, events, holdersUpdate, response, transfers,
          nDistCalls, paidToWinners, loadedTotal, nSpins, drawLog,
          fetches, now, chain, hops>>

\* The state of the overlapping fetches, of the clock and of the chain, which
\* the server steps below do not look at
sideVars == <<fetches, now, chain, hops>>

----------------------------------------------------------------------------
(* Bounds of the model *)

MaxSpins == 2
RandomSteps == 2
PageSize == 2
MaxAccounts == 3
MaxFetches == 2
MaxTime == 4
MaxChains == 2
LoadedTotalFees == 7000

(* Program constants *)

MAX_HISTORY == 50
SPIN_INTERVAL == 2
LAMPORTS_PER_MICRO_SOL == 1000
WINNER_COOLDOWN_SPINS == 2
TX_FEE == 5
HOP_MINIMUM == 1000
SIGNIFICANT_CLAIM == 1000
HOP_FEE_RESERVE == 3000
MIN_DISTRIBUTE == 2000
KEEP_PERCENTAGE == 10

None == <<>>
Some(v) == <<v>>

----------------------------------------------------------------------------
(* helius.js: the segment builder *)

Holder(o, a) == [owner |-> o, amount |-> a]

EXCLUDED_ADDRESSES == {"RaydiumAuthorityV4", "RaydiumAMM", "RaydiumCPMM",
                       "RaydiumCLMM", "WrappedSOL"}

\* The token accounts the provider holds for the mint, in the order it
\* serves them, in the behaviours of Spec; the last owner is not a valid
\* public key.
HolderLists ==
    { <<>>,
      <<Holder("DEX", 9), Holder("A", 3), Holder("B", 1)>>,
      <<Holder("DEX", 9), Holder("WrappedSOL", 4), Holder("B", 2),
        Holder("not-a-public-key", 2)>> }

\* One run of getTokenHolders: the provider's accounts, and the request that
\* hits a provider error (0: none does)
Fetch(accounts, failAt) == [accounts |-> accounts, failAt |-> failAt]

\* The requests a fetch of n accounts makes when none fails: pages of
\* PageSize accounts, until a page comes back short
Requests(n) == n \div PageSize + 1

Fetches == {Fetch(h, e) : h \in HolderLists, e \in {0, 1}}

\* allHolders.sort((a, b) => b.amount - a.amount), a stable sort
RECURSIVE InsertByAmount(_, _)
InsertByAmount(sorted, h) ==
    IF sorted = <<>> THEN <<h>>
    ELSE IF Head(sorted).amount >= h.amount
         THEN <<Head(sorted)>> \o InsertByAmount(Tail(sorted), h)
         ELSE <<h>> \o sorted

RECURSIVE SortByAmount(_)
SortByAmount(list) ==
    IF list = <<>> THEN <<>>
    ELSE InsertByAmount(SortByAmount(SubSeq(list, 1, Len(list) - 1)), list[Len(list)])

\* getTokenHolders: the pages fetched before the failing request, sorted
getTokenHolders(f) ==
    LET n == Len(f.accounts)
        fetched == IF f.failAt = 0 THEN n
                   ELSE IF (f.failAt - 1) * PageSize < n THEN (f.failAt - 1) * PageSize
                   ELSE n
    IN  SortByAmount(SelectSeq(SubSeq(f.accounts, 1, fetched), LAMBDA h : h.amount > 0))

\* server.js:321: what setCreatorExclusion(publicKey) leaves excluded
setCreatorExclusion(excluded, publicKey) == excluded \cup {publicKey}

\* The operator address, result.publicKey of server.js:314
OperatorAddress == "OP"

\* The addresses the builder drops: the fixed list, and the operator once
\* initializePumpFun loaded the credential (server.js:316-321)
excludedAddresses ==
    IF feeClaimEnabled THEN setCreatorExclusion(EXCLUDED_ADDRESSES, OperatorAddress)
    ELSE EXCLUDED_ADDRESSES

RECURSIVE SumAmount(_)
SumAmount(s) == IF s = <<>> THEN 0 ELSE Head(s).amount + SumAmount(Tail(s))

\* percentage is the exact fraction <<numerator, denominator>>
\* A builder that counts the dropped first holder in the supply
processHoldersForWheelCountingAll(holders) ==
    IF Len(holders) = 0 THEN [segments |-> <<>>, totalSupply |-> 0]
    ELSE LET eligibleHolders ==
                 SelectSeq(Tail(holders), LAMBDA h : h.owner \notin excludedAddresses)
             totalSupply == SumAmount(holders)
         IN  IF Len(eligibleHolders) = 0 THEN [segments |-> <<>>, totalSupply |-> 0]
             ELSE [segments |->
                      [i \in 1..Len(eligibleHolders) |->
                          [id |-> i - 1,
                           address |-> eligibleHolders[i].owner,
                           amount |-> eligibleHolders[i].amount,
                           percentage |-> <<eligibleHolders[i].amount * 100, totalSupply>>]],
                   totalSupply |-> totalSupply]

\* A builder that drops the fixed list only, whatever the operator address
processHoldersForWheelFixedList(holders) ==
    IF Len(holders) = 0 THEN [segments |-> <<>>, totalSupply |-> 0]
    ELSE LET eligibleHolders ==
                 SelectSeq(Tail(holders), LAMBDA h : h.owner \notin EXCLUDED_ADDRESSES)
             totalSupply == SumAmount(eligibleHolders)
         IN  IF Len(eligibleHolders) = 0 THEN [segments |-> <<>>, totalSupply |-> 0]
             ELSE [segments |->
                      [i \in 1..Len(eligibleHolders) |->
                          [id |-> i - 1,
                           address |-> eligibleHolders[i].owner,
                           amount |-> eligibleHolders[i].amount,
                           percentage |-> <<eligibleHolders[i].amount * 100, totalSupply>>]],
                   totalSupply |-> totalSupply]

processHoldersForWheel(holders) ==
    IF Len(holders) = 0 THEN [segments |-> <<>>, totalSupply |-> 0]
    ELSE LET eligibleHolders ==
                 SelectSeq(Tail(holders), LAMBDA h : h.owner \notin excludedAddresses)
             totalSupply == SumAmount(eligibleHolders)
         IN  IF Len(eligibleHolders) = 0 THEN [segments |-> <<>>, totalSupply |-> 0]
             ELSE [segments |->
                      [i \in 1..Len(eligibleHolders) |->
                          [id |-> i - 1,
                           address |-> eligibleHolders[i].owner,
                           amount |-> eligibleHolders[i].amount,
                           percentage |-> <<eligibleHolders[i].amount * 100, totalSupply>>]],
                   totalSupply |-> totalSupply]

----------------------------------------------------------------------------
(* wheelLogic.js: selection with cooldown *)

NoSegment == [id |-> -1, address |-> "null", amount |-> 0, percentage |-> <<0, 1>>]

Includes(q, a) == \E i \in 1..Len(q) : q[i] = a

\* The loop of lines 109-117 with random = (k / RandomSteps) * totalWeight:
\* the index of the first segment with random <= cumulativeWeight, 0 if none.
RECURSIVE Walk(_, _, _, _)
Walk(segs, k, totalWeight, cumulativeWeight) ==
    IF segs = <<>> THEN 0
    ELSE LET cum == cumulativeWeight + Head(segs).amount
         IN  IF k * totalWeight <= cum * RandomSteps THEN 1
             ELSE LET r == Walk(Tail(segs), k, totalWeight, cum)
                  IN  IF r = 0 THEN 0 ELSE r + 1

RECURSIVE Trim(_)
Trim(q) == IF Len(q) > WINNER_COOLDOWN_SPINS THEN Trim(Tail(q)) ELSE q

\* A selection that does not reset the cooldown when everyone is on it
selectWinnerNoReset(segments, q, k) ==
    IF Len(segments) = 0 THEN [winner |-> NoSegment, queue |-> q]
    ELSE LET eligibleSegments == SelectSeq(segments, LAMBDA s : ~Includes(q, s.address))
             totalWeight == SumAmount(eligibleSegments)
             i == Walk(eligibleSegments, k, totalWeight, 0)
             winner == IF i = 0 THEN NoSegment ELSE eligibleSegments[i]
         IN  [winner |-> winner, queue |-> Trim(Append(q, winner.address))]

\* selectWinner(segments) on the queue q with Math.random() = k / RandomSteps:
\* the winner and the queue it leaves.
selectWinnerKeepingQueue(segments, q, k) ==
    IF Len(segments) = 0 THEN [winner |-> NoSegment, queue |-> q]
    ELSE LET filtered == SelectSeq(segments, LAMBDA s : ~Includes(q, s.address))
             eligibleSegments == IF Len(filtered) = 0 THEN segments ELSE filtered
             totalWeight == SumAmount(eligibleSegments)
             i == Walk(eligibleSegments, k, totalWeight, 0)
             winner == IF i = 0 THEN eligibleSegments[Len(eligibleSegments)]
                       ELSE eligibleSegments[i]
         IN  [winner |-> winner, queue |-> Trim(Append(q, winner.address))]

selectWinnerNoCooldown(segments, q, k) ==
    IF Len(segments) = 0 THEN [winner |-> NoSegment, queue |-> q]
    ELSE LET totalWeight == SumAmount(segments)
             i == Walk(segments, k, totalWeight, 0)
             winner == IF i = 0 THEN segments[Len(segments)] ELSE segments[i]
         IN  [winner |-> winner, queue |-> Trim(Append(q, winner.address))]

selectWinner(segments, q, k) ==
    IF Len(segments) = 0 THEN [winner |-> NoSegment, queue |-> q]
    ELSE LET filtered == SelectSeq(segments, LAMBDA s : ~Includes(q, s.address))
             reset == Len(filtered) = 0
             eligibleSegments == IF reset THEN segments ELSE filtered
             totalWeight == SumAmount(eligibleSegments)
             i == Walk(eligibleSegments, k, totalWeight, 0)
             winner == IF i = 0 THEN eligibleSegments[Len(eligibleSegments)]
                       ELSE eligibleSegments[i]
         IN  [winner |-> winner,
              queue |-> Trim(Append(IF reset THEN <<>> ELSE q, winner.address))]

\* findIndex of line 173 (0-based; -1 when absent)
RECURSIVE FindIndex(_, _)
FindIndex(segs, a) ==
    IF segs = <<>> THEN -1
    ELSE IF Head(segs).address = a THEN 0
    ELSE LET r == FindIndex(Tail(segs), a) IN IF r = -1 THEN -1 ELSE r + 1

----------------------------------------------------------------------------
(* wheelLogic.js: the history ledger *)

SpinRecord(id, winner, ts) ==
    [id |-> id,
     winner |-> [address |-> winner.address, amount |-> winner.amount,
                 percentage |-> winner.percentage],
     timestamp |-> ts,
     distribution |-> None, txSignature |-> None, solscanUrl |-> None]

\* recordSpin without the pop of lines 190-192
recordSpinUnbounded(history, winner, ts) ==
    <<SpinRecord(Len(history) + 1, winner, ts)>> \o history

\* The ledger after recordSpin(winner); the record returned is its head.
recordSpinAtTail(history, winner, ts) ==
    LET pushed == Append(history, SpinRecord(Len(history) + 1, winner, ts))
    IN  IF Len(pushed) > MAX_HISTORY THEN Tail(pushed) ELSE pushed

recordSpin(history, winner, ts) ==
    LET record == SpinRecord(Len(history) + 1, winner, ts)
        unshifted == <<record>> \o history
    IN  IF Len(unshifted) > MAX_HISTORY
        THEN SubSeq(unshifted, 1, Len(unshifted) - 1)
        ELSE unshifted

\* An update that writes the payload to every record of the ledger
updateLatestSpinDistributionEvery(history, distribution) ==
    IF Len(history) = 0 THEN history
    ELSE IF distribution.distributed > 0
         THEN [i \in DOMAIN history |->
                  [history[i] EXCEPT !.distribution = Some(distribution.distributed),
                                     !.txSignature = distribution.transferSignature,
                                     !.solscanUrl = distribution.transferTxUrl]]
         ELSE history

\* An update without the test of line 206
updateLatestSpinDistributionAlways(history, distribution) ==
    IF Len(history) = 0 THEN history
    ELSE [history EXCEPT ![1].distribution = Some(distribution.distributed),
                         ![1].txSignature = distribution.transferSignature,
                         ![1].solscanUrl = distribution.transferTxUrl]

\* An update that adds the payload to what the record already holds
updateLatestSpinDistributionAccumulating(history, distribution) ==
    IF Len(history) = 0 THEN history
    ELSE IF distribution.distributed > 0
         THEN [history EXCEPT ![1].distribution =
                                  Some((IF history[1].distribution = None THEN 0
                                        ELSE history[1].distribution[1])
                                       + distribution.distributed),
                              ![1].txSignature = distribution.transferSignature,
                              ![1].solscanUrl = distribution.transferTxUrl]
         ELSE history

\* The ledger after updateLatestSpinDistribution(distribution)
updateLatestSpinDistribution(history, distribution) ==
    IF Len(history) = 0 THEN history
    ELSE IF distribution.distributed > 0
         THEN [history EXCEPT ![1].distribution = Some(distribution.distributed),
                              ![1].txSignature = distribution.transferSignature,
                              ![1].solscanUrl = distribution.transferTxUrl]
         ELSE history

getSpinHistory(history, limit) ==
    SubSeq(history, 1, IF Len(history) < limit THEN Len(history) ELSE limit)

\* addToTotalFees with the wrong sign, and adding the amount twice
addToTotalFeesSubtracting(total, amount) == total - amount

addToTotalFeesTwice(total, amount) == total + 2 * amount

addToTotalFees(total, amount) == total + amount

\* The snapshot saveHistory hands to writeFileSync (lastUpdated left out)
saveHistory(history, total) == [history |-> history, totalFeesSent |-> total]

\* The snapshots the completion callback writes for a distribution result, in
\* the order it writes them: updateLatestSpinDistribution saves the ledger,
\* then addToTotalFees saves the total
distributionWrites(history, total, result) ==
    IF result.success /\ result.distributed > 0
    THEN LET updated == updateLatestSpinDistribution(history, result)
         IN  <<saveHistory(updated, total),
               saveHistory(updated, addToTotalFees(total, result.distributed))>>
    ELSE <<>>

\* What loadHistory finds on disk: nothing, or the ledger an earlier run of
\* the program saved after k spins.
LoadedWinner == [address |-> "A", amount |-> 3, percentage |-> <<300, 4>>]

LoadedHistory(k) ==
    [i \in 1..k |-> SpinRecord(k - i + 1, LoadedWinner, 0)]

LoadedSpins == {0, MAX_HISTORY}

----------------------------------------------------------------------------
(* pumpfun.js: the amounts of claimAndDistribute and transferWithHops *)

InvalidAddresses == {"not-a-public-key"}

\* new PublicKey(winnerAddress) of line 273 succeeds
ValidAddress(a) == a \notin InvalidAddresses

\* What getCreatorBalance (lines 99-122) can return.  The operator balance
\* lives on the external ledger, where claims, transfers and third parties
\* move it: every call may observe any of these balances, or fail.
Balances == {0, 5000, 10000}

\* A getCreatorBalance that failed, or was not called
NoBalance == [success |-> FALSE, balance |-> 0]

BalanceResults == {NoBalance} \cup {[success |-> TRUE, balance |-> b] : b \in Balances}

Sig(sid, hop) == <<sid, hop>>

TxUrl(sig) == <<"https://solscan.io/tx/", sig>>

\* The object claimAndDistribute returns; a field the code leaves out is 0 or null
Result(success, claimed, distributed, error, sig) ==
    [success |-> success, claimed |-> claimed, distributed |-> distributed,
     error |-> error,
     transferSignature |-> sig,
     transferTxUrl |-> IF sig = None THEN None ELSE Some(TxUrl(sig[1]))]

\* The amount to distribute, were the hop fee reserve not taken off
DistributeAmountNoReserve(claimedAmount) ==
    claimedAmount - (claimedAmount * KEEP_PERCENTAGE) \div 100

\* lines 408-409
DistributeAmount(claimedAmount) ==
    claimedAmount - (claimedAmount * KEEP_PERCENTAGE) \div 100 - HOP_FEE_RESERVE

\* lines 293-295: what hop h (1, 2, 3) transfers of amountSol
HopAmount(amountSol, h) == amountSol - h * TX_FEE

-----------------------------------------------------------------------------
(* pumpfun.js: the lamport amounts of transferWithHops *)

\* The payouts of the model, in lamports
Payouts == {1014000, 1015000, 1016000, 6000000, 7817000}

\* The per-transfer fee in lamports: the chain takes it from the sender
FeeLamports == TX_FEE * LAMPORTS_PER_MICRO_SOL

\* line 289: amountSol <= totalFees + 0.001, for a payout of whole lamports
TooSmall(p) == p <= 3 * FeeLamports + HOP_MINIMUM * LAMPORTS_PER_MICRO_SOL

\* lines 293-295, 305, 321 and 337: Math.floor(hopAmount * LAMPORTS_PER_SOL)
\* for the three transfers, with amountSol = p / 1e9, hop1Amount = amountSol -
\* 0.000005, hop2Amount = hop1Amount - 0.000005 and winnerAmount = hop2Amount
\* - 0.000005 in the IEEE 754 double arithmetic of the language.  The
\* differences and products are rounded to the nearest double, and the floor
\* of a product that falls just below a whole number is one lamport less.
HopLamports(p) ==
    CASE
           p = 1014000 -> <<1008999, 1003999, 998999>>
        [] p = 1015000 -> <<1010000, 1005000, 1000000>>
        [] p = 1016000 -> <<1011000, 1006000, 1000999>>
        [] p = 6000000 -> <<5995000, 5990000, 5985000>>
        [] p = 7817000 -> <<7811999, 7807000, 7802000>>

\* The state of the hop accounts before the first chain
NoHops == [n |-> 0, payout |-> 0, next |-> 0, sent |-> <<>>, hop1 |-> 0, hop2 |-> 0,
           outcome |-> "", stranded |-> 0]

----------------------------------------------------------------------------
(* server.js: state after start-up *)

NoWinner == NoSegment

Task(sid, winner) ==
    [sid |-> sid, winner |-> winner, pc |-> "timer", balanceBefore |-> 0,
     claimedAmount |-> 0, amountSol |-> 0, hop |-> 0, sigs |-> <<>>,
     result |-> None]

Transfer(sid, hop, amount) ==
    [sid |-> sid, hop |-> hop, amount |-> amount, status |-> "submitted"]

Event(type, sid, data) == [type |-> type, sid |-> sid, data |-> data]

NoResponse == [status |-> 0, error |-> ""]

Init ==
    /\ currentHolders = <<>>
    /\ currentWheelData = [segments |-> <<>>, totalSupply |-> 0]
    /\ lastSpinTime = 0
    /\ isSpinning = FALSE
    /\ lastWinner = NoWinner
    /\ creatorBalance = 0
    /\ feeClaimEnabled \in BOOLEAN
    /\ \E k \in LoadedSpins :
          /\ spinHistory = LoadedHistory(k)
          /\ totalFeesSentPersistent = IF k = 0 THEN 0 ELSE LoadedTotalFees
    /\ loadedTotal = totalFeesSentPersistent
    /\ paidToWinners = 0
    /\ nDistCalls = 0
    /\ holdersUpdate = None
    /\ recentWinners = <<>>
    /\ tasks = {}
    /\ events = <<>>
    /\ response = NoResponse
    /\ transfers = <<>>
    /\ nSpins = 0
    /\ drawLog = [winners |-> <<>>, pool |-> {}]
    /\ fetches = [started |-> <<>>, done |-> {}]
    /\ now = 0
    /\ chain = [balance |-> 0, vault |-> 0, collected |-> 0]
    /\ hops = NoHops

----------------------------------------------------------------------------
(* server.js: holder refresh *)

\* A refresh whose two assignments are apart: the holder list is replaced
\* and the segment set is not yet
RefreshHoldersSplit(f) ==
    /\ currentHolders' = getTokenHolders(f)
    /\ holdersUpdate' = Some(Event("holdersUpdate", 0,
                                   [wheelData |-> currentWheelData,
                                    totalHolders |-> Len(currentHolders')]))
    /\ UNCHANGED <<currentWheelData, lastSpinTime, isSpinning, lastWinner,
                   creatorBalance, feeClaimEnabled, spinHistory,
                   totalFeesSentPersistent, recentWinners, tasks, events, response,
                   transfers, nDistCalls, paidToWinners, loadedTotal, nSpins,
                   drawLog>>

\* server.js:253-273: refreshHolders once getTokenHolders has returned
RefreshHolders(f) ==
    /\ currentHolders' = getTokenHolders(f)
    /\ currentWheelData' = processHoldersForWheel(currentHolders')
    /\ holdersUpdate' = Some(Event("holdersUpdate", 0,
                                   [wheelData |-> currentWheelData',
                                    totalHolders |-> Len(currentHolders')]))
    /\ UNCHANGED <<lastSpinTime, isSpinning, lastWinner, creatorBalance,
                   feeClaimEnabled, spinHistory, totalFeesSentPersistent,
                   recentWinners, tasks, events, response, transfers, nDistCalls,
                   paidToWinners, loadedTotal, nSpins, drawLog>>

----------------------------------------------------------------------------
(* server.js: performSpin up to its setTimeout *)

Addresses(segments) == {segments[i].address : i \in 1..Len(segments)}

\* The draw log after a draw from segments that winner won: the winners of
\* the last WINNER_COOLDOWN_SPINS + 1 draws, and the pool of this draw
LogDraw(log, winner, segments) ==
    LET w == Append(log.winners, winner.address)
    IN  [winners |-> IF Len(w) > WINNER_COOLDOWN_SPINS + 1 THEN Tail(w) ELSE w,
         pool |-> Addresses(segments)]

performSpinAt(k, time) ==
    LET segments == currentWheelData.segments
        sel == selectWinner(segments, recentWinners, k)
        winner == sel.winner
        winnerIndex == FindIndex(segments, winner.address)
        history == recordSpin(spinHistory, winner, nSpins + 1)
        record == Head(history)
        sid == nSpins + 1
    IN  /\ Len(segments) # 0
        /\ nSpins < MaxSpins
        /\ nSpins' = sid
        /\ isSpinning' = TRUE
        /\ recentWinners' = sel.queue
        /\ drawLog' = LogDraw(drawLog, winner, segments)
        /\ spinHistory' = history
        /\ lastWinner' = winner
        /\ lastSpinTime' = time
        /\ events' =
               << Event("spinStart", sid, <<>>),
                  Event("spinResult", sid,
                        [winner |-> winner, winnerIndex |-> winnerIndex,
                         record |-> record]) >>
        /\ tasks' = tasks \cup {Task(sid, winner.address)}
        /\ transfers' = <<>>
        /\ nDistCalls' = 0
        /\ UNCHANGED <<currentHolders, currentWheelData, creatorBalance,
                       feeClaimEnabled, totalFeesSentPersistent, holdersUpdate,
                       paidToWinners, loadedTotal>>

\* In the specifications without a clock the time of a spin is its number
performSpin(k) == performSpinAt(k, nSpins + 1)

\* POST /api/spin without the isSpinning check of lines 106-108
PostSpinAt(k, time) ==
    \/ /\ isSpinning
       /\ response' = [status |-> 400, error |-> "Spin already in progress"]
       /\ UNCHANGED <<currentHolders, currentWheelData, lastSpinTime, isSpinning,
                      lastWinner, creatorBalance, feeClaimEnabled, spinHistory,
                      totalFeesSentPersistent, recentWinners, tasks, events,
                      holdersUpdate, transfers, nDistCalls, paidToWinners,
                      loadedTotal, nSpins, drawLog>>
    \/ /\ ~isSpinning
       /\ Len(currentWheelData.segments) = 0
       /\ response' = [status |-> 500, error |-> "No holders available for spin"]
       /\ UNCHANGED <<currentHolders, currentWheelData, lastSpinTime, isSpinning,
                      lastWinner, creatorBalance, feeClaimEnabled, spinHistory,
                      totalFeesSentPersistent, recentWinners, tasks, events,
                      holdersUpdate, transfers, nDistCalls, paidToWinners,
                      loadedTotal, nSpins, drawLog>>
    \/ /\ ~isSpinning
       /\ performSpinAt(k, time)
       /\ response' = [status |-> 200, error |-> ""]

PostSpinUnguarded(k) ==
    \/ /\ Len(currentWheelData.segments) = 0
       /\ response' = [status |-> 500, error |-> "No holders available for spin"]
       /\ UNCHANGED <<currentHolders, currentWheelData, lastSpinTime, isSpinning,
                      lastWinner, creatorBalance, feeClaimEnabled, spinHistory,
                      totalFeesSentPersistent, recentWinners, tasks, events,
                      holdersUpdate, transfers, nDistCalls, paidToWinners,
                      loadedTotal, nSpins, drawLog>>
    \/ /\ performSpin(k)
       /\ response' = [status |-> 200, error |-> ""]

\* POST /api/spin, were performSpin to set isSpinning before its test of
\* the segment set
PostSpinLatching(k) ==
    \/ /\ isSpinning
       /\ response' = [status |-> 400, error |-> "Spin already in progress"]
       /\ UNCHANGED <<currentHolders, currentWheelData, lastSpinTime, isSpinning,
                      lastWinner, creatorBalance, feeClaimEnabled, spinHistory,
                      totalFeesSentPersistent, recentWinners, tasks, events,
                      holdersUpdate, transfers, nDistCalls, paidToWinners,
                      loadedTotal, nSpins, drawLog>>
    \/ /\ ~isSpinning
       /\ Len(currentWheelData.segments) = 0
       /\ response' = [status |-> 500, error |-> "No holders available for spin"]
       /\ isSpinning' = TRUE
       /\ UNCHANGED <<currentHolders, currentWheelData, lastSpinTime,
                      lastWinner, creatorBalance, feeClaimEnabled, spinHistory,
                      totalFeesSentPersistent, recentWinners, tasks, events,
                      holdersUpdate, transfers, nDistCalls, paidToWinners,
                      loadedTotal, nSpins, drawLog>>
    \/ /\ ~isSpinning
       /\ performSpin(k)
       /\ response' = [status |-> 200, error |-> ""]

\* server.js:105-116: POST /api/spin
PostSpin(k) == PostSpinAt(k, nSpins + 1)

\* AutoSpinTick without the isSpinning check of line 280
AutoSpinTickAt(k, time) ==
    /\ ~isSpinning
    /\ Len(currentWheelData.segments) > 0
    /\ performSpinAt(k, time)
    /\ UNCHANGED response

AutoSpinTickUnguarded(k) ==
    /\ Len(currentWheelData.segments) > 0
    /\ performSpin(k)
    /\ UNCHANGED response

AutoSpinTick(k) == AutoSpinTickAt(k, nSpins + 1)

----------------------------------------------------------------------------
(* server.js: the setTimeout callback of performSpin, with the               *)
(* claimAndDistribute and transferWithHops calls it awaits (pumpfun.js)      *)

\* pumpfun.js:66: set by initialize, which server.js:314-317 calls exactly
\* when it sets feeClaimEnabled
isConfigured == feeClaimEnabled

\* What no step of the callback changes
serverVars == <<currentHolders, currentWheelData, lastSpinTime, lastWinner,
                feeClaimEnabled, recentWinners, holdersUpdate, response,
                loadedTotal, nSpins, drawLog>>

\* The callback stays inside claimAndDistribute, at its next await
awaiting(t, u) ==
    /\ tasks' = (tasks \ {t}) \cup {u}
    /\ UNCHANGED <<spinHistory, totalFeesSentPersistent, isSpinning, events,
                   creatorBalance>>

\* distributionReturned, were a failed distribution to remove the record
distributionReturnedDropping(t, result) ==
    LET paid == result.success /\ result.distributed > 0
    IN  /\ spinHistory' = IF paid
                          THEN updateLatestSpinDistribution(spinHistory, result)
                          ELSE Tail(spinHistory)
        /\ totalFeesSentPersistent' =
               IF paid THEN addToTotalFees(totalFeesSentPersistent, result.distributed)
               ELSE totalFeesSentPersistent
        /\ tasks' = (tasks \ {t}) \cup
                    {[t EXCEPT !.pc = "balanceRefresh", !.result = Some(result)]}
        /\ UNCHANGED <<isSpinning, events, creatorBalance>>

\* server.js:206-222: claimAndDistribute returned result; the callback
\* updates the ledger and the total and awaits getCreatorBalance
distributionReturned(t, result) ==
    LET paid == result.success /\ result.distributed > 0
    IN  /\ spinHistory' = IF paid
                          THEN updateLatestSpinDistribution(spinHistory, result)
                          ELSE spinHistory
        /\ totalFeesSentPersistent' =
               IF paid THEN addToTotalFees(totalFeesSentPersistent, result.distributed)
               ELSE totalFeesSentPersistent
        /\ tasks' = (tasks \ {t}) \cup
                    {[t EXCEPT !.pc = "balanceRefresh", !.result = Some(result)]}
        /\ UNCHANGED <<isSpinning, events, creatorBalance>>

\* spinComplete, were the callback to end without resetting isSpinning
spinCompleteHolding(t, distribution) ==
    /\ isSpinning' = isSpinning
    /\ events' = Append(events,
                        Event("spinComplete", t.sid,
                              [winner |-> t.winner,
                               history |-> getSpinHistory(spinHistory, 10),
                               distribution |-> distribution,
                               creatorBalance |-> creatorBalance',
                               totalFeesSent |-> totalFeesSentPersistent]))
    /\ tasks' = tasks \ {t}

\* server.js:229-241
spinComplete(t, distribution) ==
    /\ isSpinning' = FALSE
    /\ events' = Append(events,
                        Event("spinComplete", t.sid,
                              [winner |-> t.winner,
                               history |-> getSpinHistory(spinHistory, 10),
                               distribution |-> distribution,
                               creatorBalance |-> creatorBalance',
                               totalFeesSent |-> totalFeesSentPersistent]))
    /\ tasks' = tasks \ {t}

\* The callback, were neither the server nor the orchestrator to test for
\* the credential
TimerFireUnguarded(t) ==
    /\ t.pc = "timer"
    /\ \/ /\ t.winner # ""
          /\ nDistCalls' = nDistCalls + 1
          /\ awaiting(t, [t EXCEPT !.pc = "balanceBefore"])
       \/ /\ t.winner = ""
          /\ UNCHANGED <<spinHistory, totalFeesSentPersistent, creatorBalance,
                         nDistCalls>>
          /\ spinComplete(t, None)
    /\ UNCHANGED <<serverVars, transfers, paidToWinners>>

\* server.js:196-204 and pumpfun.js:370-377
TimerFire(t) ==
    /\ t.pc = "timer"
    /\ \/ /\ feeClaimEnabled /\ t.winner # ""
          /\ nDistCalls' = nDistCalls + 1
          /\ IF isConfigured
             THEN awaiting(t, [t EXCEPT !.pc = "balanceBefore"])
             ELSE distributionReturned(t, Result(FALSE, 0, 0, "Service not configured", None))
       \/ /\ ~(feeClaimEnabled /\ t.winner # "")
          /\ UNCHANGED <<spinHistory, totalFeesSentPersistent, creatorBalance,
                         nDistCalls>>
          /\ spinComplete(t, None)
    /\ UNCHANGED <<serverVars, transfers, paidToWinners>>

\* pumpfun.js:377-383: the first getCreatorBalance returns
BalanceBeforeReturns(t, r) ==
    /\ t.pc = "balanceBefore"
    /\ IF r.success
       THEN awaiting(t, [t EXCEPT !.pc = "claim", !.balanceBefore = r.balance])
       ELSE distributionReturned(t, Result(FALSE, 0, 0, "getBalance failed", None))
    /\ UNCHANGED <<serverVars, transfers, nDistCalls, paidToWinners>>

\* ClaimReturns, were a failed claim to end the distribution
ClaimReturnsFailing(t, ok) ==
    /\ t.pc = "claim"
    /\ IF ok
       THEN awaiting(t, [t EXCEPT !.pc = "balanceAfter"])
       ELSE distributionReturned(t, Result(FALSE, 0, 0, "claim failed", None))
    /\ UNCHANGED <<serverVars, transfers, nDistCalls, paidToWinners>>

\* pumpfun.js:383-389: claimCreatorFees returns (its result is not looked at);
\* the settle delay and the second getCreatorBalance follow
ClaimReturns(t, ok) ==
    /\ t.pc = "claim"
    /\ ok \in BOOLEAN
    /\ awaiting(t, [t EXCEPT !.pc = "balanceAfter"])
    /\ UNCHANGED <<serverVars, transfers, nDistCalls, paidToWinners>>

\* pumpfun.js:262-308: transferWithHops up to its first await
transferWithHops(t, claimedAmount, amountSol) ==
    IF ~isConfigured
    THEN /\ distributionReturned(t, Result(FALSE, claimedAmount, 0, "Service not configured", None))
         /\ UNCHANGED transfers
    ELSE IF ~ValidAddress(t.winner)
    THEN /\ distributionReturned(t, Result(FALSE, claimedAmount, 0, "Invalid winner address", None))
         /\ UNCHANGED transfers
    ELSE IF amountSol <= 3 * TX_FEE + HOP_MINIMUM
    THEN /\ distributionReturned(t, Result(FALSE, claimedAmount, 0, "Amount too small for hop transfer", None))
         /\ UNCHANGED transfers
    ELSE /\ transfers' = Append(transfers, Transfer(t.sid, 1, HopAmount(amountSol, 1)))
         /\ awaiting(t, [t EXCEPT !.pc = "hop", !.hop = 1,
                                  !.claimedAmount = claimedAmount,
                                  !.amountSol = amountSol])

\* pumpfun.js:389-421: the second getCreatorBalance returns
BalanceAfterReturns(t, r) ==
    /\ t.pc = "balanceAfter"
    /\ LET claimedAmount == r.balance - t.balanceBefore
           distributeAmount == DistributeAmount(claimedAmount)
       IN  IF ~r.success
           THEN /\ distributionReturned(t, Result(FALSE, 0, 0, "getBalance failed", None))
                /\ UNCHANGED transfers
           ELSE IF claimedAmount <= SIGNIFICANT_CLAIM
           THEN /\ distributionReturned(t, Result(TRUE, 0, 0, "", None))
                /\ UNCHANGED transfers
           ELSE IF distributeAmount <= MIN_DISTRIBUTE
           THEN /\ distributionReturned(t, Result(TRUE, claimedAmount, 0, "", None))
                /\ UNCHANGED transfers
           ELSE transferWithHops(t, claimedAmount, distributeAmount)
    /\ UNCHANGED <<serverVars, nDistCalls, paidToWinners>>

Settle(log, sid, hop, status) ==
    [i \in DOMAIN log |->
        IF log[i].sid = sid /\ log[i].hop = hop /\ log[i].status = "submitted"
        THEN [log[i] EXCEPT !.status = status]
        ELSE log[i]]

\* HopReturns, were a failed last hop reported as a success
HopReturnsOptimistic(t, ok) ==
    /\ t.pc = "hop"
    /\ LET sig == Sig(t.sid, t.hop)
       IN  \/ /\ ok /\ t.hop < 3
              /\ transfers' = Append(Settle(transfers, t.sid, t.hop, "confirmed"),
                                     Transfer(t.sid, t.hop + 1,
                                              HopAmount(t.amountSol, t.hop + 1)))
              /\ awaiting(t, [t EXCEPT !.hop = t.hop + 1, !.sigs = Append(@, sig)])
           \/ /\ ok /\ t.hop = 3
              /\ transfers' = Settle(transfers, t.sid, t.hop, "confirmed")
              /\ distributionReturned(t, Result(TRUE, t.claimedAmount,
                                                HopAmount(t.amountSol, 3), "",
                                                Some(sig)))
           \/ /\ ~ok
              /\ transfers' = Settle(transfers, t.sid, t.hop, "failed")
              /\ distributionReturned(t, Result(t.hop = 3, t.claimedAmount,
                                                IF t.hop = 3
                                                THEN HopAmount(t.amountSol, 3) ELSE 0,
                                                "transfer failed",
                                                IF t.hop = 3 THEN Some(sig) ELSE None))
    /\ paidToWinners' = IF ok /\ t.hop = 3
                        THEN paidToWinners + HopAmount(t.amountSol, 3)
                        ELSE paidToWinners
    /\ UNCHANGED <<serverVars, nDistCalls>>

\* HopReturns, were the chain to go on after a failed hop
HopReturnsContinuing(t, ok) ==
    /\ t.pc = "hop"
    /\ LET sig == Sig(t.sid, t.hop)
       IN  \/ /\ t.hop < 3
              /\ transfers' = Append(Settle(transfers, t.sid, t.hop,
                                            IF ok THEN "confirmed" ELSE "failed"),
                                     Transfer(t.sid, t.hop + 1,
                                              HopAmount(t.amountSol, t.hop + 1)))
              /\ awaiting(t, [t EXCEPT !.hop = t.hop + 1, !.sigs = Append(@, sig)])
           \/ /\ ok /\ t.hop = 3
              /\ transfers' = Settle(transfers, t.sid, t.hop, "confirmed")
              /\ distributionReturned(t, Result(TRUE, t.claimedAmount,
                                                HopAmount(t.amountSol, 3), "",
                                                Some(sig)))
           \/ /\ ~ok /\ t.hop = 3
              /\ transfers' = Settle(transfers, t.sid, t.hop, "failed")
              /\ distributionReturned(t, Result(FALSE, t.claimedAmount, 0,
                                                "transfer failed", None))
    /\ paidToWinners' = IF ok /\ t.hop = 3
                        THEN paidToWinners + HopAmount(t.amountSol, 3)
                        ELSE paidToWinners
    /\ UNCHANGED <<serverVars, nDistCalls>>

\* HopReturns, were a failed hop submitted again
HopReturnsRetrying(t, ok) ==
    /\ t.pc = "hop"
    /\ LET sig == Sig(t.sid, t.hop)
       IN  \/ /\ ok /\ t.hop < 3
              /\ transfers' = Append(Settle(transfers, t.sid, t.hop, "confirmed"),
                                     Transfer(t.sid, t.hop + 1,
                                              HopAmount(t.amountSol, t.hop + 1)))
              /\ awaiting(t, [t EXCEPT !.hop = t.hop + 1, !.sigs = Append(@, sig)])
           \/ /\ ok /\ t.hop = 3
              /\ transfers' = Settle(transfers, t.sid, t.hop, "confirmed")
              /\ distributionReturned(t, Result(TRUE, t.claimedAmount,
                                                HopAmount(t.amountSol, 3), "",
                                                Some(sig)))
           \/ /\ ~ok
              /\ transfers' = Append(Settle(transfers, t.sid, t.hop, "failed"),
                                     Transfer(t.sid, t.hop,
                                              HopAmount(t.amountSol, t.hop)))
              /\ awaiting(t, t)
    /\ paidToWinners' = IF ok /\ t.hop = 3
                        THEN paidToWinners + HopAmount(t.amountSol, 3)
                        ELSE paidToWinners
    /\ UNCHANGED <<serverVars, nDistCalls>>

\* pumpfun.js:308-364 and 421-440: sendAndConfirmTransaction of hop t.hop
\* returns (ok) or throws; an error is taken to mean the transfer did not land
HopReturnsShortChain(t, ok) ==
    /\ t.pc = "hop"
    /\ LET sig == Sig(t.sid, t.hop)
       IN  \/ /\ ok /\ t.hop < 2
              /\ transfers' = Append(Settle(transfers, t.sid, t.hop, "confirmed"),
                                     Transfer(t.sid, t.hop + 1,
                                              HopAmount(t.amountSol, t.hop + 1)))
              /\ awaiting(t, [t EXCEPT !.hop = t.hop + 1, !.sigs = Append(@, sig)])
           \/ /\ ok /\ t.hop = 2
              /\ transfers' = Settle(transfers, t.sid, t.hop, "confirmed")
              /\ distributionReturned(t, Result(TRUE, t.claimedAmount,
                                                HopAmount(t.amountSol, 3), "",
                                                Some(sig)))
           \/ /\ ~ok
              /\ transfers' = Settle(transfers, t.sid, t.hop, "failed")
              /\ distributionReturned(t, Result(FALSE, t.claimedAmount, 0,
                                                "transfer failed", None))
    /\ paidToWinners' = paidToWinners
    /\ UNCHANGED <<serverVars, nDistCalls>>

HopReturns(t, ok) ==
    /\ t.pc = "hop"
    /\ LET sig == Sig(t.sid, t.hop)
       IN  \/ /\ ok /\ t.hop < 3
              /\ transfers' = Append(Settle(transfers, t.sid, t.hop, "confirmed"),
                                     Transfer(t.sid, t.hop + 1,
                                              HopAmount(t.amountSol, t.hop + 1)))
              /\ awaiting(t, [t EXCEPT !.hop = t.hop + 1, !.sigs = Append(@, sig)])
           \/ /\ ok /\ t.hop = 3
              /\ transfers' = Settle(transfers, t.sid, t.hop, "confirmed")
              /\ distributionReturned(t, Result(TRUE, t.claimedAmount,
                                                HopAmount(t.amountSol, 3), "",
                                                Some(sig)))
           \/ /\ ~ok
              /\ transfers' = Settle(transfers, t.sid, t.hop, "failed")
              /\ distributionReturned(t, Result(FALSE, t.claimedAmount, 0,
                                                "transfer failed", None))
    /\ paidToWinners' = IF ok /\ t.hop = 3
                        THEN paidToWinners + HopAmount(t.amountSol, 3)
                        ELSE paidToWinners
    /\ UNCHANGED <<serverVars, nDistCalls>>

\* server.js:222-241: the last getCreatorBalance returns
BalanceRefreshReturns(t, r) ==
    /\ t.pc = "balanceRefresh"
    /\ creatorBalance' = IF r.success THEN r.balance ELSE creatorBalance
    /\ spinComplete(t, t.result)
    /\ UNCHANGED <<serverVars, spinHistory, totalFeesSentPersistent, transfers,
                   nDistCalls, paidToWinners>>

----------------------------------------------------------------------------
(* server.js: the fee endpoints *)

\* POST /api/claim-fees, lines 146-159: claimCreatorFees succeeded (ok) and
\* getCreatorBalance returned r, or it failed and getCreatorBalance is not called
PostClaimFees(ok, r) ==
    /\ feeClaimEnabled
    /\ creatorBalance' = IF ok /\ r.success THEN r.balance ELSE creatorBalance
    /\ UNCHANGED <<currentHolders, currentWheelData, lastSpinTime, isSpinning,
                   lastWinner, feeClaimEnabled, spinHistory, totalFeesSentPersistent,
                   recentWinners, tasks, events, holdersUpdate, response, transfers,
                   nDistCalls, paidToWinners, loadedTotal, nSpins, drawLog>>

----------------------------------------------------------------------------

Next ==
    \/ \E f \in Fetches : RefreshHolders(f) /\ UNCHANGED sideVars
    \/ \E k \in 0..RandomSteps : PostSpin(k) /\ UNCHANGED sideVars
    \/ \E k \in 0..RandomSteps : AutoSpinTick(k) /\ UNCHANGED sideVars
    \/ \E t \in tasks : TimerFire(t) /\ UNCHANGED sideVars
    \/ \E t \in tasks, r \in BalanceResults : BalanceBeforeReturns(t, r) /\ UNCHANGED sideVars
    \/ \E t \in tasks, ok \in BOOLEAN : ClaimReturns(t, ok) /\ UNCHANGED sideVars
    \/ \E t \in tasks, r \in BalanceResults : BalanceAfterReturns(t, r) /\ UNCHANGED sideVars
    \/ \E t \in tasks, ok \in BOOLEAN : HopReturns(t, ok) /\ UNCHANGED sideVars
    \/ \E t \in tasks, r \in BalanceResults : BalanceRefreshReturns(t, r) /\ UNCHANGED sideVars
    \/ \E ok \in BOOLEAN :
          \E r \in (IF ok THEN BalanceResults ELSE {NoBalance}) : PostClaimFees(ok, r) /\ UNCHANGED sideVars

Spec == Init /\ [][Next]_vars

\* The steps of a pending timeout callback.  Node runs a due timer, and the
\* claims taken here assume that every external call returns.
CallbackStep ==
    /\ UNCHANGED sideVars
    /\ \/ \E t \in tasks : TimerFire(t)
       \/ \E t \in tasks, r \in BalanceResults : BalanceBeforeReturns(t, r)
       \/ \E t \in tasks, ok \in BOOLEAN : ClaimReturns(t, ok)
       \/ \E t \in tasks, r \in BalanceResults : BalanceAfterReturns(t, r)
       \/ \E t \in tasks, ok \in BOOLEAN : HopReturns(t, ok)
       \/ \E t \in tasks, r \in BalanceResults : BalanceRefreshReturns(t, r)

\* The callback never reads the length of the ledger: the fair behaviours
\* are taken from the start-up that found no saved ledger.
InitFresh == Init /\ spinHistory = <<>>

FairSpec == InitFresh /\ [][Next]_vars /\ WF_vars(CallbackStep)

----------------------------------------------------------------------------
(* selectWinner on its own: any sequence of draws over changing segment sets *)

Draw(k) ==
    LET segments == currentWheelData.segments
        sel == selectWinner(segments, recentWinners, k)
    IN  /\ Len(segments) # 0
        /\ recentWinners' = sel.queue
        /\ drawLog' = LogDraw(drawLog, sel.winner, segments)
        /\ UNCHANGED <<currentHolders, currentWheelData, lastSpinTime, isSpinning,
                       lastWinner, creatorBalance, feeClaimEnabled, spinHistory,
                       totalFeesSentPersistent, tasks, events, holdersUpdate,
                       response, transfers, nDistCalls, paidToWinners,
                       loadedTotal, nSpins>>

NextDraw ==
    \/ \E f \in Fetches : RefreshHolders(f) /\ UNCHANGED sideVars
    \/ \E k \in 0..RandomSteps : Draw(k) /\ UNCHANGED sideVars

SpecDraw == Init /\ [][NextDraw]_vars

----------------------------------------------------------------------------
(* The server with its countdown broadcast.  Of a run of countdown events    *)
(* the log keeps one.                                                        *)

Broadcast(log, type) ==
    IF log # <<>> /\ log[Len(log)].type = type THEN log
    ELSE Append(log, Event(type, nSpins, <<>>))

\* The interval callback without the isSpinning test of line 294
CountdownUnguarded ==
    /\ events' = Broadcast(events, "countdown")
    /\ UNCHANGED <<currentHolders, currentWheelData, lastSpinTime, isSpinning,
                   lastWinner, creatorBalance, feeClaimEnabled, spinHistory,
                   totalFeesSentPersistent, recentWinners, tasks, holdersUpdate,
                   response, transfers, nDistCalls, paidToWinners, loadedTotal,
                   nSpins, drawLog>>

\* server.js:292-301: the interval callback of startCountdownBroadcast
Countdown ==
    /\ events' = IF ~isSpinning THEN Broadcast(events, "countdown") ELSE events
    /\ UNCHANGED <<currentHolders, currentWheelData, lastSpinTime, isSpinning,
                   lastWinner, creatorBalance, feeClaimEnabled, spinHistory,
                   totalFeesSentPersistent, recentWinners, tasks, holdersUpdate,
                   response, transfers, nDistCalls, paidToWinners, loadedTotal,
                   nSpins, drawLog>>

NextEvents == Next \/ (Countdown /\ UNCHANGED sideVars)

SpecEvents == InitFresh /\ [][NextEvents]_vars

----------------------------------------------------------------------------
(* selectWinner alone, on any candidate list a caller may pass, empty and    *)
(* zero-weight lists included                                                *)

Segment(id, address, amount, total) ==
    [id |-> id, address |-> address, amount |-> amount,
     percentage |-> <<amount * 100, total>>]

CandidateLists ==
    { <<>>,
      <<Segment(0, "A", 0, 1)>>,
      <<Segment(0, "A", 0, 1), Segment(1, "B", 0, 1)>>,
      <<Segment(0, "A", 3, 4), Segment(1, "B", 1, 4)>>,
      <<Segment(0, "B", 2, 4), Segment(1, "C", 2, 4)>> }

Select(segments, k) ==
    LET sel == selectWinner(segments, recentWinners, k)
    IN  /\ recentWinners' = sel.queue
        /\ drawLog' = LogDraw(drawLog, sel.winner, segments)
        /\ UNCHANGED <<currentHolders, currentWheelData, lastSpinTime, isSpinning,
                       lastWinner, creatorBalance, feeClaimEnabled, spinHistory,
                       totalFeesSentPersistent, tasks, events, holdersUpdate,
                       response, transfers, nDistCalls, paidToWinners,
                       loadedTotal, nSpins>>

NextSelect ==
    \E segments \in CandidateLists, k \in 0..RandomSteps :
       Select(segments, k) /\ UNCHANGED sideVars

SpecSelect == Init /\ [][NextSelect]_vars

----------------------------------------------------------------------------
(* The holder refresh alone, on every account list of up to MaxAccounts      *)
(* accounts the provider may serve, in any order, failing at any request     *)

BuilderAccounts ==
    { Holder("A", 1000000), Holder("B", 400), Holder("C", 100), Holder("A", 100),
      Holder(OperatorAddress, 400), Holder("WrappedSOL", 100) }

ProviderLists == UNION {[1..n -> BuilderAccounts] : n \in 0..MaxAccounts}

BuilderFetches ==
    {Fetch(l, e) : l \in ProviderLists, e \in 0..(MaxAccounts \div PageSize + 1)}

Refresh(f) ==
    /\ f.failAt <= Requests(Len(f.accounts))
    /\ RefreshHolders(f)

NextBuild == \E f \in BuilderFetches : Refresh(f) /\ UNCHANGED sideVars

SpecBuild == InitFresh /\ [][NextBuild]_vars

-----------------------------------------------------------------------------
(* The holder refresh with its await: refreshHolders is entered by the       *)
(* 30 s interval whether or not the fetch of an earlier call has returned,   *)
(* and each call goes on when its own fetch returns                          *)

StartRefresh(f) ==
    /\ Len(fetches.started) < MaxFetches
    /\ fetches' = [fetches EXCEPT !.started = Append(@, f)]
    /\ UNCHANGED <<currentHolders, currentWheelData, lastSpinTime, isSpinning,
                   lastWinner, creatorBalance, feeClaimEnabled, spinHistory,
                   totalFeesSentPersistent, recentWinners, tasks, events,
                   holdersUpdate, response, transfers, nDistCalls, paidToWinners,
                   loadedTotal, nSpins, drawLog, now, chain, hops>>

FinishRefresh(i) ==
    /\ i \in DOMAIN fetches.started
    /\ i \notin fetches.done
    /\ RefreshHolders(fetches.started[i])
    /\ fetches' = [fetches EXCEPT !.done = @ \cup {i}]
    /\ UNCHANGED <<now, chain, hops>>

NextRefresh ==
    \/ \E f \in Fetches : StartRefresh(f)
    \/ \E i \in 1..MaxFetches : FinishRefresh(i)

SpecRefresh == InitFresh /\ [][NextRefresh]_vars

-----------------------------------------------------------------------------
(* The server with a clock.  One unit of now is half of SPIN_INTERVAL_MS;    *)
(* the auto-spin interval, set when the server starts at now = 0, is due at  *)
(* every multiple of SPIN_INTERVAL, and a spin stamps lastSpinTime with the  *)
(* clock.  No credential is loaded, so the completion callback is one step.  *)

getTimeUntilNextSpin(last, intervalMs, time) ==
    LET nextSpinTime == last + intervalMs
    IN  IF nextSpinTime - time > 0 THEN nextSpinTime - time ELSE 0

\* Time passes to an instant at which the auto-spin interval is not due
ClockTick ==
    /\ now < MaxTime
    /\ (now + 1) % SPIN_INTERVAL # 0
    /\ now' = now + 1
    /\ UNCHANGED <<currentHolders, currentWheelData, lastSpinTime, isSpinning,
                   lastWinner, creatorBalance, feeClaimEnabled, spinHistory,
                   totalFeesSentPersistent, recentWinners, tasks, events,
                   holdersUpdate, response, transfers, nDistCalls, paidToWinners,
                   loadedTotal, nSpins, drawLog, fetches, chain, hops>>

\* Time passes to an instant at which the interval is due, and its callback runs
ClockAutoSpin(k) ==
    /\ now < MaxTime
    /\ (now + 1) % SPIN_INTERVAL = 0
    /\ now' = now + 1
    /\ IF ~isSpinning /\ Len(currentWheelData.segments) > 0
       THEN AutoSpinTickAt(k, now')
       ELSE UNCHANGED <<currentHolders, currentWheelData, lastSpinTime, isSpinning,
                        lastWinner, creatorBalance, feeClaimEnabled, spinHistory,
                        totalFeesSentPersistent, recentWinners, tasks, events,
                        holdersUpdate, response, transfers, nDistCalls,
                        paidToWinners, loadedTotal, nSpins, drawLog>>
    /\ UNCHANGED <<fetches, chain, hops>>

NextClock ==
    \/ ClockTick
    \/ \E k \in 0..RandomSteps : ClockAutoSpin(k)
    \/ \E k \in 0..RandomSteps : PostSpinAt(k, now) /\ UNCHANGED sideVars
    \/ \E f \in Fetches : RefreshHolders(f) /\ UNCHANGED sideVars
    \/ \E t \in tasks : TimerFire(t) /\ UNCHANGED sideVars

InitClock == InitFresh /\ ~feeClaimEnabled

SpecClock == InitClock /\ [][NextClock]_vars

-----------------------------------------------------------------------------
(* The server with the chain.  Creator fees gather in the vault; a claim     *)
(* that succeeds moves the vault to the operator's balance, getCreatorBalance*)
(* reads that balance, and the first transfer of a chain takes its amount    *)
(* and its fee from it.  chain.collected is what the latest claim step of a  *)
(* distribution collected.                                                   *)

MaxBalance == CHOOSE b \in Balances : \A c \in Balances : c <= b

ChainBalance == [success |-> TRUE, balance |-> chain.balance]

\* Trades pay creator fees into the vault
FeesAccrue(a) ==
    /\ a > 0
    /\ chain.balance + chain.vault + a <= MaxBalance
    /\ chain' = [chain EXCEPT !.vault = @ + a]
    /\ UNCHANGED <<currentHolders, currentWheelData, lastSpinTime, isSpinning,
                   lastWinner, creatorBalance, feeClaimEnabled, spinHistory,
                   totalFeesSentPersistent, recentWinners, tasks, events,
                   holdersUpdate, response, transfers, nDistCalls, paidToWinners,
                   loadedTotal, nSpins, drawLog, fetches, now, hops>>

ChainBalanceBefore(t) ==
    /\ BalanceBeforeReturns(t, ChainBalance)
    /\ UNCHANGED sideVars

ChainClaim(t, ok) ==
    /\ ClaimReturns(t, ok)
    /\ chain' = IF ok
                THEN [balance |-> chain.balance + chain.vault, vault |-> 0,
                      collected |-> chain.vault]
                ELSE [chain EXCEPT !.collected = 0]
    /\ UNCHANGED <<fetches, now, hops>>

ChainBalanceAfter(t) ==
    /\ BalanceAfterReturns(t, ChainBalance)
    /\ UNCHANGED sideVars

ChainHop(t, ok) ==
    /\ HopReturns(t, ok)
    /\ chain' = IF ok /\ t.hop = 1
                THEN [chain EXCEPT !.balance = @ - (HopAmount(t.amountSol, 1) + TX_FEE)]
                ELSE chain
    /\ UNCHANGED <<fetches, now, hops>>

ChainBalanceRefresh(t) ==
    /\ BalanceRefreshReturns(t, ChainBalance)
    /\ UNCHANGED sideVars

\* POST /api/claim-fees: its claim, and the balance it reads when the claim succeeded
ChainPostClaimFees(ok) ==
    /\ chain' = IF ok
                THEN [chain EXCEPT !.balance = @ + chain.vault, !.vault = 0]
                ELSE chain
    /\ PostClaimFees(ok, [success |-> TRUE, balance |-> chain'.balance])
    /\ UNCHANGED <<fetches, now, hops>>

NextChain ==
    \/ \E a \in Balances : FeesAccrue(a)
    \/ \E f \in Fetches : RefreshHolders(f) /\ UNCHANGED sideVars
    \/ \E k \in 0..RandomSteps : PostSpin(k) /\ UNCHANGED sideVars
    \/ \E t \in tasks : TimerFire(t) /\ UNCHANGED sideVars
    \/ \E t \in tasks : ChainBalanceBefore(t)
    \/ \E t \in tasks, ok \in BOOLEAN : ChainClaim(t, ok)
    \/ \E t \in tasks : ChainBalanceAfter(t)
    \/ \E t \in tasks, ok \in BOOLEAN : ChainHop(t, ok)
    \/ \E t \in tasks : ChainBalanceRefresh(t)
    \/ \E ok \in BOOLEAN : ChainPostClaimFees(ok)

InitChain == InitFresh /\ feeClaimEnabled

SpecChain == InitChain /\ [][NextChain]_vars

-----------------------------------------------------------------------------
(* transferWithHops on the chain, in lamports.  The two hop accounts are     *)
(* created for each chain and start empty; the chain accepts a transfer when *)
(* the sender holds its amount and the fee, and a transfer may fail for      *)
(* other reasons.  What a chain leaves in its hop accounts is stranded.      *)

hopsUnchanged ==
    UNCHANGED <<currentHolders, currentWheelData, lastSpinTime, isSpinning,
                lastWinner, creatorBalance, feeClaimEnabled, spinHistory,
                totalFeesSentPersistent, recentWinners, tasks, events,
                holdersUpdate, response, transfers, nDistCalls, paidToWinners,
                loadedTotal, nSpins, drawLog, fetches, now, chain>>

\* lines 262-291: the chain is entered with a payout of p lamports
StartHops(p) ==
    /\ hops.next = 0
    /\ hops.n < MaxChains
    /\ hops' = [n |-> hops.n + 1, payout |-> p, next |-> IF TooSmall(p) THEN 0 ELSE 1,
                sent |-> <<>>, hop1 |-> 0, hop2 |-> 0,
                outcome |-> IF TooSmall(p) THEN "Amount too small for hop transfer"
                            ELSE "",
                stranded |-> hops.stranded]
    /\ hopsUnchanged

\* lines 298-340: transfer hops.next is submitted and confirmed, or fails
HopTransfer(ok) ==
    /\ hops.next \in 1..3
    /\ LET h == hops.next
           amount == HopLamports(hops.payout)[h]
           funds == CASE h = 1 -> amount + FeeLamports
                      [] h = 2 -> hops.hop1
                      [] h = 3 -> hops.hop2
           lands == ok /\ amount + FeeLamports <= funds
           hop1 == CASE ~lands -> hops.hop1
                     [] h = 1 -> amount
                     [] h = 2 -> hops.hop1 - amount - FeeLamports
                     [] h = 3 -> hops.hop1
           hop2 == CASE ~lands -> hops.hop2
                     [] h = 1 -> 0
                     [] h = 2 -> amount
                     [] h = 3 -> hops.hop2 - amount - FeeLamports
           ends == ~lands \/ h = 3
       IN  hops' = [hops EXCEPT
                       !.sent = Append(@, [amount |-> amount, funds |-> funds]),
                       !.hop1 = hop1,
                       !.hop2 = hop2,
                       !.next = IF ends THEN 0 ELSE h + 1,
                       !.outcome = IF ~lands THEN "failed"
                                   ELSE IF h = 3 THEN "success" ELSE "",
                       !.stranded = IF ends THEN @ + hop1 + hop2 ELSE @]
    /\ hopsUnchanged

NextHops ==
    \/ \E p \in Payouts : StartHops(p)
    \/ \E ok \in BOOLEAN : HopTransfer(ok)

SpecHops == InitFresh /\ [][NextHops]_vars

----------------------------------------------------------------------------
(* Observations used by the properties *)

\* The positions in the ledger of the record of spin sid of this run
RecordsOf(sid) == {i \in DOMAIN spinHistory : spinHistory[i].timestamp = sid}

\* The sum of the distribution fields of the records this run appended
RECURSIVE SumDistributed(_)
SumDistributed(history) ==
    IF history = <<>> THEN 0
    ELSE (IF Head(history).timestamp > 0 /\ Head(history).distribution # None
          THEN Head(history).distribution[1] ELSE 0)
         + SumDistributed(Tail(history))

Undistributed(record) ==
    /\ record.distribution = None
    /\ record.txSignature = None
    /\ record.solscanUrl = None

EventTypes == [i \in DOMAIN events |-> events[i].type]

\* The spin cycle of spin sid has broadcast spinComplete
Completed(sid) ==
    /\ events # <<>>
    /\ events[Len(events)].type = "spinComplete"
    /\ events[Len(events)].sid = sid

\* The positions of a holder list the builder is to keep
EligibleIndexes(holders) ==
    {i \in 2..Len(holders) : holders[i].owner \notin excludedAddresses}

\* The sum of the amounts at the positions S of a holder list
RECURSIVE SumAt(_, _)
SumAt(holders, S) ==
    IF S = {} THEN 0
    ELSE LET i == CHOOSE x \in S : TRUE
         IN  holders[i].amount + SumAt(holders, S \ {i})

\* The sum of the numerators of the percentages, all over totalSupply
RECURSIVE SumNumerators(_)
SumNumerators(segments) ==
    IF segments = <<>> THEN 0
    ELSE Head(segments).percentage[1] + SumNumerators(Tail(segments))

\* The segment of an address has the whole percentage p
HasPercentage(segments, address, p) ==
    \E i \in 1..Len(segments) :
        /\ segments[i].address = address
        /\ segments[i].percentage[1] = p * segments[i].percentage[2]

\* A fetch whose provider failed at some request
Failed(f) == f.failAt # 0 /\ f.failAt <= Requests(Len(f.accounts))

\* Payloads whose distributed amount is not positive: what claimAndDistribute
\* returns when nothing was paid, and a negative amount
UnpaidResults ==
    { Result(TRUE, 0, 0, "", None),
      Result(TRUE, 2000, 0, "", None),
      Result(FALSE, 10000, 0, "transfer failed", None),
      Result(FALSE, 0, 0, "Service not configured", None),
      Result(TRUE, 0, -1, "", Some(Sig(0, 3))) }

\* A payload of a paid distribution
PaidResult == Result(TRUE, 10000, 5985, "", Some(Sig(0, 3)))

HopFailed(h) ==
    \E i \in DOMAIN transfers : transfers[i].hop = h /\ transfers[i].status = "failed"

----------------------------------------------------------------------------
(* Properties *)

\* C1: at most one spin is in flight.  From spinStart until the completion
\* callback resets isSpinning there is exactly one pending callback, it is
\* the callback of the latest spin, the head of the ledger is that spin's
\* record, lastWinner is its winner and at most one distribution was
\* started: no manual or timer trigger selected, appended or distributed in
\* between, whatever the interleaving.
C1_OneSpinInFlight ==
    /\ Cardinality(tasks) <= 1
    /\ isSpinning <=> tasks # {}
    /\ \A t \in tasks :
          /\ t.sid = nSpins
          /\ spinHistory # <<>>
          /\ Head(spinHistory).timestamp = t.sid
          /\ Head(spinHistory).winner.address = t.winner
          /\ lastWinner.address = t.winner
          /\ events # <<>> /\ events[1] = Event("spinStart", t.sid, <<>>)
          /\ nDistCalls <= 1

C1_Witness ==
    /\ isSpinning
    /\ nSpins = 2
    /\ response.status = 400
    /\ \E t \in tasks : t.pc = "hop"

\* C2: a POST /api/spin handled while isSpinning is answered with the error
\* "Spin already in progress" and changes nothing else: no record, no change
\* of the cooldown queue, lastWinner, lastSpinTime or isSpinning, no event,
\* no callback queued.
C2_RejectedWhileSpinning ==
    [][(isSpinning /\ response' # response) =>
          /\ response' = [status |-> 400, error |-> "Spin already in progress"]
          /\ UNCHANGED <<currentHolders, currentWheelData, lastSpinTime,
                         isSpinning, lastWinner, creatorBalance, feeClaimEnabled,
                         spinHistory, totalFeesSentPersistent, recentWinners,
                         tasks, events, holdersUpdate, transfers, nDistCalls,
                         paidToWinners, loadedTotal, nSpins, drawLog>>]_vars

C2_Witness ==
    /\ isSpinning
    /\ response = [status |-> 400, error |-> "Spin already in progress"]
    /\ \E t \in tasks : t.pc = "timer"

\* C3: the record of a spin is in the ledger, with null distribution fields,
\* and spinResult is broadcast before the spin's distribution starts; and the
\* record of every spin stays in the ledger whatever its distribution did.
C3_RecordedBeforeDistribution ==
    /\ \A sid \in 1..nSpins : RecordsOf(sid) # {}
    /\ \A t \in tasks :
          t.pc = "timer" =>
             /\ nDistCalls = 0 /\ transfers = <<>>
             /\ Head(spinHistory).timestamp = t.sid
             /\ Undistributed(Head(spinHistory))
             /\ EventTypes = <<"spinStart", "spinResult">>
             /\ events[2].sid = t.sid
             /\ events[2].data.record = Head(spinHistory)
    /\ (nDistCalls > 0 \/ transfers # <<>>) =>
          /\ Len(events) >= 2
          /\ events[2].type = "spinResult" /\ events[2].sid = nSpins
          /\ events[2].data.record.timestamp = nSpins
          /\ Undistributed(events[2].data.record)

C3_Witness ==
    /\ ~isSpinning
    /\ Completed(nSpins)
    /\ HopFailed(2)
    /\ RecordsOf(nSpins) # {}

\* C4: every record gets an id strictly greater than the id of every earlier
\* record, so the ids decrease strictly from the head of the ledger to its
\* end and no two records of the ledger share an id.
C4_IdsStrictlyIncreasing ==
    \A i \in 1..(Len(spinHistory) - 1) : spinHistory[i].id > spinHistory[i + 1].id

\* C5: the cumulative total never decreases, whatever step is taken: a spin,
\* a step of a distribution, a holder refresh or a manual claim.
C5_TotalNeverDecreases ==
    [][totalFeesSentPersistent' >= totalFeesSentPersistent]_vars

C5_Witness ==
    /\ totalFeesSentPersistent > loadedTotal
    /\ nSpins = 2
    /\ ~isSpinning

\* C6: the total grows exactly once per spin whose distribution succeeded
\* with a positive amount, by that amount, and not otherwise: in every state
\* it is the loaded total plus the confirmed payouts to winners, which is the
\* loaded total plus the distribution fields of this run's records.
C6_TotalIsSumOfDistributions ==
    /\ totalFeesSentPersistent = loadedTotal + paidToWinners
    /\ totalFeesSentPersistent = loadedTotal + SumDistributed(spinHistory)

C6_Witness ==
    /\ tasks = {}
    /\ nSpins = 2
    /\ paidToWinners > 0
    /\ \E i \in DOMAIN spinHistory :
          spinHistory[i].timestamp > 0 /\ spinHistory[i].distribution = None

\* C7: when the transfer from hop2 to the winner fails after the first two
\* hops confirmed, claimAndDistribute reports a failure with distributed 0,
\* the spin's record keeps null distribution fields, the total gets nothing
\* for this spin, and no further transfer is submitted.
C7_LastHopFailure ==
    HopFailed(3) =>
       /\ Len(transfers) = 3
       /\ transfers[1].status = "confirmed" /\ transfers[2].status = "confirmed"
       /\ \A i \in RecordsOf(nSpins) : Undistributed(spinHistory[i])
       /\ totalFeesSentPersistent = loadedTotal + SumDistributed(spinHistory)
       /\ \A t \in tasks :
             /\ t.pc = "balanceRefresh"
             /\ t.result # None
             /\ ~t.result[1].success /\ t.result[1].distributed = 0
       /\ tasks = {} =>
             /\ Completed(nSpins)
             /\ ~events[Len(events)].data.distribution[1].success
             /\ events[Len(events)].data.distribution[1].distributed = 0

C7_Witness ==
    /\ HopFailed(3)
    /\ tasks = {}
    /\ Completed(nSpins)

\* C8: no transfer is retried: claimAndDistribute is called at most once per
\* spin, and each of the three hops is submitted at most once.
C8_NoRetry ==
    /\ nDistCalls <= 1
    /\ Len(transfers) <= 3
    /\ \A i, j \in DOMAIN transfers :
          (transfers[i].sid = transfers[j].sid /\ transfers[i].hop = transfers[j].hop)
             => i = j
    /\ \A i \in DOMAIN transfers : transfers[i].hop = i

C8_Witness ==
    /\ HopFailed(1)
    /\ Len(transfers) = 1
    /\ tasks = {}
    /\ Completed(nSpins)

\* C9: every spin that starts broadcasts spinComplete and resets isSpinning,
\* also when its distribution fails at any step; and whenever no spin is in
\* flight and the segments are not empty, a timer tick starts a new spin
\* (as long as the model's bound on spins allows one).
C9_SpinCompletes ==
    /\ isSpinning ~> (~isSpinning /\ Completed(nSpins))
    /\ [](( ~isSpinning /\ Len(currentWheelData.segments) > 0 /\ nSpins < MaxSpins)
             => ENABLED (\E k \in 0..RandomSteps : AutoSpinTick(k)))

C9_Witness ==
    /\ ~isSpinning
    /\ nSpins = 2
    /\ Completed(nSpins)
    /\ events[Len(events)].data.distribution # None
    /\ ~events[Len(events)].data.distribution[1].success

\* C10: after an address wins it is excluded from the next
\* WINNER_COOLDOWN_SPINS draws, unless excluding the cooled-down addresses
\* would leave the draw no candidate: a winner that also won one of the two
\* draws before was drawn from a pool holding cooled-down addresses only.
C10_CooldownHonoured ==
    LET w == drawLog.winners
        n == Len(w)
        before == {w[i] : i \in 1..(n - 1)}
    IN  (n >= 2 /\ w[n] \in before) => drawLog.pool \subseteq before

\* C11: selectWinner returns one of the segments it was given, for every
\* non-empty segment list, every cooldown queue and every random draw from
\* 0 to the total weight: the latest winner is an address of the segment
\* set of its draw.
C11_WinnerIsAGivenSegment ==
    LET w == drawLog.winners
    IN  w # <<>> => w[Len(w)] \in drawLog.pool

\* C11 happens: every given segment was on cooldown, the cooldown was reset
\* and a winner of the two draws before won again
C11_Witness ==
    LET w == drawLog.winners
    IN  /\ Len(w) = WINNER_COOLDOWN_SPINS + 1
        /\ w[3] \in {w[1], w[2]}
        /\ w[3] \in drawLog.pool
        /\ Len(recentWinners) = 1

\* C12: when a holder list leaves an eligible holder, totalSupply is the sum
\* of the eligible amounts, each percentage is amount / totalSupply * 100,
\* the percentages sum to 100, and holders [{A,1000000},{B,400},{C,100}]
\* give B 80 and C 20.
C12_PercentagesOfEligibleSupply ==
    LET segments == currentWheelData.segments
        eligible == EligibleIndexes(currentHolders)
        supply == SumAt(currentHolders, eligible)
    IN  /\ eligible # {} =>
              /\ currentWheelData.totalSupply = supply
              /\ Len(segments) = Cardinality(eligible)
              /\ \A i \in 1..Len(segments) :
                     /\ segments[i].percentage[2] = supply
                     /\ segments[i].percentage[1] = segments[i].amount * 100
              /\ SumNumerators(segments) = 100 * supply
        /\ currentHolders = <<Holder("A", 1000000), Holder("B", 400), Holder("C", 100)>> =>
              /\ Len(segments) = 2
              /\ HasPercentage(segments, "B", 80)
              /\ HasPercentage(segments, "C", 20)

\* C12 happens: the list of the example was fetched and built
C12_Witness ==
    /\ currentHolders = <<Holder("A", 1000000), Holder("B", 400), Holder("C", 100)>>
    /\ holdersUpdate # None
    /\ currentWheelData.totalSupply = 500

\* C13: no segment set has the address of the first (largest) holder of the
\* list it was built from or an address of the fixed list, and a list that
\* leaves no other holder gives empty segments and zero supply.
C13_LargestAndListedExcluded ==
    LET segments == currentWheelData.segments
    IN  /\ \A i \in 1..Len(segments) :
               /\ segments[i].address # currentHolders[1].owner
               /\ segments[i].address \notin EXCLUDED_ADDRESSES
        /\ EligibleIndexes(currentHolders) = {} =>
               currentWheelData = [segments |-> <<>>, totalSupply |-> 0]

C15_FailedRefreshKeepsCache ==
    [][\A f \in BuilderFetches :
          (Failed(f) /\ Refresh(f)) => UNCHANGED <<currentHolders, currentWheelData>>]_vars

C17_InvalidAddressNoSideEffects ==
    \A t \in tasks :
        ~ValidAddress(t.winner) =>
            /\ t.pc \notin {"claim", "balanceAfter", "hop"}
            /\ transfers = <<>>

\* C18 as stated: with claimed = 0.01, keep 10% and 0.003 reserved the
\* amount handed to the hop transfer is forced to exactly the minimum 0.002.
C18_ForcedToMinimum ==
    \A t \in tasks :
        (t.pc = "hop" /\ t.claimedAmount = 10000) => t.amountSol = MIN_DISTRIBUTE

\* C18 amended: with claimed = 0.01, keep 10% and 0.003 reserved the payout
\* candidate is 0.01 - 0.001 - 0.003 = 0.006, above the minimum 0.002, and
\* 0.006 is the amount handed to the hop transfer, whose first hop carries
\* it less one transaction fee; a distribution of that claim that succeeds
\* reports 0.006 less the three hop fees.
C18_CandidateHandedOver ==
    \A t \in tasks :
        /\ (t.pc = "hop" /\ t.claimedAmount = 10000) =>
               /\ t.amountSol = 6000
               /\ t.amountSol > MIN_DISTRIBUTE
               /\ transfers # <<>>
               /\ transfers[1].amount = 6000 - TX_FEE
        /\ (t.result # None /\ t.result[1].success
               /\ t.result[1].claimed = 10000) =>
               t.result[1].distributed = 6000 - 3 * TX_FEE

\* C18 happens: the balance rose by 0.01 over the claim and the hop
\* transfer of that distribution was started
C18_Witness ==
    \E t \in tasks :
        /\ t.pc = "hop"
        /\ t.balanceBefore = 0
        /\ t.claimedAmount = 10000

\* C19: when the claimed amount is at or below 0.001 the distribution still
\* pays the guaranteed minimum 0.002 through the hop chain and reports a
\* positive distributed amount.
C19_MinimumPaidWithoutFees ==
    \A t \in tasks :
        (t.result # None /\ t.result[1].success
            /\ t.result[1].claimed <= SIGNIFICANT_CLAIM) =>
            /\ t.result[1].distributed > 0
            /\ transfers # <<>>

\* C20: updateLatestSpinDistribution is idempotent.  Applied again with the
\* payload of a distribution that returned, it leaves the ledger, every
\* field of every record and their order, as the first application left
\* it; the function holds no assignment to the cumulative total.
C20_UpdateLatestIdempotent ==
    \A t \in tasks :
        t.result # None =>
            LET distribution == t.result[1]
                once == updateLatestSpinDistribution(spinHistory, distribution)
                twice == updateLatestSpinDistribution(once, distribution)
            IN  /\ twice = once
                /\ (distribution.success /\ distribution.distributed > 0) =>
                       /\ once = spinHistory
                       /\ spinHistory[1].distribution = Some(distribution.distributed)

\* C20 happens: a distribution paid, the callback updated the latest record
\* with its payload, and the ledger is full
C20_Witness ==
    \E t \in tasks :
        /\ t.pc = "balanceRefresh"
        /\ t.result # None
        /\ t.result[1].success
        /\ t.result[1].distributed > 0
        /\ spinHistory[1].txSignature = t.result[1].transferSignature
        /\ Len(spinHistory) = MAX_HISTORY

\* C21: updateLatestSpinDistribution changes nothing when the ledger is
\* empty or when the distributed amount of the payload is not positive:
\* every record of the ledger, also a latest record that already carries
\* distribution fields, is as it was.
C21_NoOpWithoutPayment ==
    /\ \A d \in UnpaidResults :
           updateLatestSpinDistribution(spinHistory, d) = spinHistory
    /\ spinHistory = <<>> =>
           updateLatestSpinDistribution(spinHistory, PaidResult) = <<>>

\* C21 happens: the latest record carries the distribution fields of a paid
\* distribution of this run
C21_Witness ==
    /\ spinHistory # <<>>
    /\ spinHistory[1].timestamp = nSpins
    /\ spinHistory[1].distribution # None
    /\ spinHistory[1].txSignature # None
    /\ tasks = {}

\* C22: selectWinner fails, returning no winner and leaving the cooldown
\* queue as it was, when the candidate list is empty or when every
\* candidate has weight zero.
C22_InvalidInputRejected ==
    [][\A segments \in CandidateLists, k \in 0..RandomSteps :
          (SumAmount(segments) = 0 /\ Select(segments, k)) =>
              /\ recentWinners' = recentWinners
              /\ drawLog'.winners[Len(drawLog'.winners)] = NoSegment.address]_vars

\* C23: the ledger never holds more than 50 records.  After k appends, the
\* loaded ones and the spins of this run, it holds the min(k, 50) most
\* recently appended records, newest first: the spins of this run from the
\* latest back, then the loaded records in their order, cut at 50, so that
\* only the oldest records have left.
C23_BoundedLedger ==
    LET loaded == IF loadedTotal = 0 THEN 0 ELSE MAX_HISTORY
        k == loaded + nSpins
        n == Len(spinHistory)
    IN  /\ n <= MAX_HISTORY
        /\ n = IF k < MAX_HISTORY THEN k ELSE MAX_HISTORY
        /\ \A i \in 1..n :
               IF i <= nSpins
               THEN spinHistory[i].timestamp = nSpins - i + 1
               ELSE spinHistory[i] = LoadedHistory(loaded)[i - nSpins]

\* C23 happens: two records were appended to a full ledger and the two
\* oldest records have left
C23_Witness ==
    /\ loadedTotal # 0
    /\ nSpins = 2
    /\ Len(spinHistory) = MAX_HISTORY
    /\ spinHistory[1].timestamp = 2
    /\ spinHistory[2].timestamp = 1
    /\ spinHistory[MAX_HISTORY].id = 3

\* C24: the distribution fields of a record change at most once, from null
\* to the values of a distribution with a positive amount, and its winner,
\* id and timestamp never change: a step that changes the ledger either
\* appends a record with null fields and leaves the others as they were, or
\* fills the null fields of the latest record and leaves everything else.
C24_FieldsSetOnce ==
    [][spinHistory' # spinHistory =>
          \/ /\ Len(spinHistory') >= 1
             /\ Undistributed(spinHistory'[1])
             /\ spinHistory'[1].timestamp = nSpins'
             /\ nSpins' = nSpins + 1
             /\ \A i \in 2..Len(spinHistory') : spinHistory'[i] = spinHistory[i - 1]
          \/ /\ Len(spinHistory') = Len(spinHistory)
             /\ Len(spinHistory) >= 1
             /\ \A i \in 2..Len(spinHistory) : spinHistory'[i] = spinHistory[i]
             /\ spinHistory'[1].id = spinHistory[1].id
             /\ spinHistory'[1].winner = spinHistory[1].winner
             /\ spinHistory'[1].timestamp = spinHistory[1].timestamp
             /\ Undistributed(spinHistory[1])
             /\ spinHistory'[1].distribution # None
             /\ spinHistory'[1].distribution[1] > 0
             /\ spinHistory'[1].txSignature # None
             /\ spinHistory'[1].solscanUrl # None]_vars

\* C24 happens: the record of the first spin had its fields filled, and
\* kept them while the second spin was recorded and paid
C24_Witness ==
    /\ nSpins = 2
    /\ Len(spinHistory) >= 2
    /\ spinHistory[1].timestamp = 2
    /\ spinHistory[1].distribution # None
    /\ spinHistory[2].timestamp = 1
    /\ spinHistory[2].distribution # None
    /\ spinHistory[2].txSignature = Some(Sig(1, 3))

\* C25: a spin triggered while the segment set is empty fails fast with
\* "No holders available" and leaves the coordinator idle: isSpinning stays
\* false, no record is appended, no id is consumed, the cooldown queue and
\* lastSpinTime are as they were and no spinStart is broadcast.  The
\* auto-spin timer does not spin on an empty segment set and is still
\* there afterwards: it can spin whenever the coordinator is idle with a
\* non-empty segment set.
C25_EmptyWheelFailsFast ==
    /\ [][(~isSpinning /\ Len(currentWheelData.segments) = 0
             /\ response' # response) =>
              /\ response' = [status |-> 500, error |-> "No holders available for spin"]
              /\ UNCHANGED <<currentHolders, currentWheelData, lastSpinTime,
                             isSpinning, lastWinner, creatorBalance,
                             feeClaimEnabled, spinHistory, totalFeesSentPersistent,
                             recentWinners, tasks, events, holdersUpdate,
                             transfers, nDistCalls, paidToWinners, loadedTotal,
                             nSpins, drawLog>>]_vars
    /\ [](Len(currentWheelData.segments) = 0 =>
             ~ENABLED (\E k \in 0..RandomSteps : AutoSpinTick(k)))
    /\ []((response.status = 500 /\ ~isSpinning
              /\ Len(currentWheelData.segments) > 0 /\ nSpins < MaxSpins) =>
             ENABLED (\E k \in 0..RandomSteps : AutoSpinTick(k)))

\* C25 happens: a manual spin on an empty segment set was refused, and
\* after a refresh the timer ran a spin
C25_Witness ==
    /\ response = [status |-> 500, error |-> "No holders available for spin"]
    /\ nSpins = 1
    /\ isSpinning
    /\ Len(events) = 2

\* C26: the transfers of the hop chain are submitted in the order
\* operator-to-hop1, hop1-to-hop2, hop2-to-winner, each only after the one
\* before it was confirmed, and after a transfer failed no later transfer
\* of the chain is submitted.
C26_HopsSequential ==
    \A i \in DOMAIN transfers :
        /\ transfers[i].hop = i
        /\ transfers[i].sid = nSpins
        /\ i < Len(transfers) => transfers[i].status = "confirmed"
        /\ transfers[i].status # "confirmed" => i = Len(transfers)
        /\ transfers[i].status = "submitted" =>
               \E t \in tasks : t.pc = "hop" /\ t.hop = i

\* C26 happens: the first transfer was confirmed, the second failed, the
\* distribution returned and no third transfer was submitted
C26_Witness ==
    /\ HopFailed(2)
    /\ Len(transfers) = 2
    /\ transfers[1].status = "confirmed"
    /\ \E t \in tasks : t.pc = "balanceRefresh"

\* C27: when a hop transfer fails after an earlier hop was confirmed, the
\* failure result the orchestrator returns holds the signature of the last
\* confirmed hop.
C27_LastHopReferenceRetained ==
    \A t \in tasks :
        (t.result # None /\ ~t.result[1].success /\ t.sigs # <<>>) =>
            t.result[1].transferSignature = Some(t.sigs[Len(t.sigs)])

\* C28: the events of a spin are spinStart, spinResult, spinComplete, in
\* that order and once each, with no countdown event between spinStart and
\* spinComplete; isSpinning is false when spinComplete is sent, and the
\* record update, the increment of the total and the balance refresh of the
\* spin come before it: spinComplete is sent by the step in which the
\* balance refresh returns, after the distribution returned, and carries
\* the updated ledger and total.
C28_EventOrder ==
    /\ [](/\ EventTypes \in { <<>>, <<"countdown">>,
                             <<"spinStart", "spinResult">>,
                             <<"spinStart", "spinResult", "spinComplete">>,
                             <<"spinStart", "spinResult", "spinComplete", "countdown">> }
          /\ isSpinning <=> EventTypes = <<"spinStart", "spinResult">>
          /\ isSpinning <=> tasks # {}
          /\ \A i \in DOMAIN events :
                events[i].type # "countdown" => events[i].sid = nSpins
          /\ Len(events) >= 3 =>
                LET data == events[3].data
                IN  /\ data.history = getSpinHistory(spinHistory, 10)
                    /\ data.totalFeesSent = totalFeesSentPersistent
                    /\ (data.distribution # None /\ data.distribution[1].success
                          /\ data.distribution[1].distributed > 0) =>
                          /\ data.history[1].distribution =
                                 Some(data.distribution[1].distributed)
                          /\ data.totalFeesSent >= data.distribution[1].distributed)
    /\ [][(Len(events') >= 3 /\ Len(events) = 2) =>
              /\ ~isSpinning'
              /\ tasks' = {}
              /\ UNCHANGED <<spinHistory, totalFeesSentPersistent>>
              /\ \A t \in tasks :
                     (feeClaimEnabled /\ t.winner # "") =>
                         /\ t.pc = "balanceRefresh"
                         /\ t.result # None
                         /\ events'[3].data.distribution = t.result]_vars

\* C28 happens: a spin was paid and completed, and the countdown resumed
C28_Witness ==
    /\ EventTypes = <<"spinStart", "spinResult", "spinComplete", "countdown">>
    /\ events[3].data.distribution # None
    /\ events[3].data.distribution[1].distributed > 0
    /\ ~isSpinning

\* C29: a holder refresh that completes while a spin is in flight replaces
\* the holder list and the segment set together and does not affect the
\* spin: the announced winner, its record, the address of the payout and
\* isSpinning are as they were; and in every state the segment set is the
\* one built from the cached holder list, so that every snapshot reports a
\* holder count and a segment set of the same fetch.
C29_RefreshDuringSpin ==
    /\ [](/\ currentWheelData = processHoldersForWheel(currentHolders)
          /\ holdersUpdate # None =>
                holdersUpdate[1].data = [wheelData |-> currentWheelData,
                                         totalHolders |-> Len(currentHolders)])
    /\ [][(isSpinning /\ <<currentHolders, currentWheelData, holdersUpdate>>'
                            # <<currentHolders, currentWheelData, holdersUpdate>>) =>
              UNCHANGED <<isSpinning, lastWinner, lastSpinTime, spinHistory,
                          totalFeesSentPersistent, recentWinners, tasks, events,
                          transfers, nDistCalls, paidToWinners, nSpins,
                          creatorBalance>>]_vars

\* C29 happens: during a spin a refresh replaced the segment set with one
\* that no longer has the winner, and the spin is still in flight
C29_Witness ==
    /\ isSpinning
    /\ \E t \in tasks : t.winner = lastWinner.address /\ t.pc = "hop"
    /\ lastWinner.address \notin Addresses(currentWheelData.segments)
    /\ Len(currentWheelData.segments) > 0
    /\ spinHistory[1].winner.address = lastWinner.address

\* C30: a claim step that finds no fees, or whose request fails, does not
\* make the distribution fail: whatever claimCreatorFees returns, the
\* distribution goes on to the second balance snapshot; a result reports
\* either claimed zero, with nothing distributed and, unless a balance read
\* failed, success, or a claimed amount above the threshold, never a
\* negative one.
C30_NoFeesIsNotAnError ==
    /\ [](\A t \in tasks :
             t.result # None =>
                 /\ t.result[1].claimed >= 0
                 /\ t.result[1].claimed = 0 \/ t.result[1].claimed > SIGNIFICANT_CLAIM
                 /\ t.result[1].claimed = 0 =>
                        /\ t.result[1].distributed = 0
                        /\ t.result[1].success <=> t.result[1].error = "")
    /\ [][\A t \in tasks :
              (t.pc = "claim" /\ t \notin tasks') =>
                  /\ tasks' = {[t EXCEPT !.pc = "balanceAfter"]}
                  /\ UNCHANGED <<spinHistory, totalFeesSentPersistent, transfers,
                                 events, isSpinning>>]_vars

\* C30 happens: the balance after the claim was below the balance before
\* it, and the distribution returned success with claimed zero
C30_Witness ==
    \E t \in tasks :
        /\ t.pc = "balanceRefresh"
        /\ t.balanceBefore = 10000
        /\ t.result = Some(Result(TRUE, 0, 0, "", None))


\* A persisted snapshot whose total includes every distribution amount its
\* records of this run carry
SnapshotConsistent(snapshot) ==
    snapshot.totalFeesSent >= loadedTotal + SumDistributed(snapshot.history)

\* C31: every snapshot the completion callback writes for a paid
\* distribution, the last of which is the state it leaves in memory, holds a
\* total that includes every distribution amount the snapshot's records carry.
C31_SnapshotsIncludeTotal ==
    [][\A t \in tasks : \A u \in tasks' :
          (t.result = None /\ u.sid = t.sid /\ u.result # None) =>
              LET writes == distributionWrites(spinHistory, totalFeesSentPersistent,
                                               u.result[1])
              IN  writes # <<>> =>
                     /\ writes[Len(writes)] =
                            saveHistory(spinHistory', totalFeesSentPersistent')
                     /\ \A i \in DOMAIN writes : SnapshotConsistent(writes[i])]_vars

\* C32: in every segment set built from a provider list each address occurs
\* at most once, so that FindIndex by address is the position of the segment
\* itself.
C32_AddressesUnique ==
    LET segments == currentWheelData.segments
    IN  \A i \in 1..Len(segments) :
            /\ \A j \in 1..Len(segments) :
                   segments[i].address = segments[j].address => i = j
            /\ FindIndex(segments, segments[i].address) = segments[i].id

\* The addresses of a cooldown queue
InQueue(q) == {q[i] : i \in DOMAIN q}

\* C33: after a draw that returned a winner the cooldown queue holds at most
\* WINNER_COOLDOWN_SPINS addresses, its newest entry is that winner, and the
\* entries before it are the newest entries of the queue before the draw, in
\* their order; when every given segment was in the queue before the draw,
\* the queue holds the new winner only.
C33_QueueAfterDraw ==
    [][drawLog' # drawLog =>
          LET q == recentWinners
              after == recentWinners'
              w == drawLog'.winners[Len(drawLog'.winners)]
          IN  /\ Len(after) <= WINNER_COOLDOWN_SPINS
              /\ after # <<>> /\ after[Len(after)] = w
              /\ drawLog'.pool \subseteq InQueue(q) => after = <<w>>
              /\ ~(drawLog'.pool \subseteq InQueue(q)) =>
                     after = IF Len(q) < WINNER_COOLDOWN_SPINS THEN Append(q, w)
                             ELSE Append(Tail(q), w)]_vars

\* C33 happens: three draws had three winners, and the oldest of them has
\* left the queue
C33_Witness ==
    LET w == drawLog.winners
    IN  /\ Len(w) = WINNER_COOLDOWN_SPINS + 1
        /\ w[1] \notin {w[2], w[3]}
        /\ recentWinners = <<w[2], w[3]>>

\* C34: a draw returns an address that was in the cooldown queue when the
\* draw started only if every given segment was in the queue; the winner is
\* then one of the given segments.
C34_QueuedNeverDrawn ==
    [][drawLog' # drawLog =>
          LET w == drawLog'.winners[Len(drawLog'.winners)]
          IN  w \in InQueue(recentWinners) =>
                  /\ drawLog'.pool \subseteq InQueue(recentWinners)
                  /\ w \in drawLog'.pool]_vars

\* C34 happens: both segments were in the queue, and the winner of the draw
\* before won again
C34_Witness ==
    LET w == drawLog.winners
    IN  /\ Len(w) = WINNER_COOLDOWN_SPINS + 1
        /\ w[3] = w[2]
        /\ w[1] # w[2]
        /\ drawLog.pool = {w[1], w[2]}
        /\ recentWinners = <<w[3]>>

\* C35: while the completion callback of a spin is pending, the newest
\* record of the ledger is the record of that spin, with the address the
\* payout goes to; a paid result is written to that record.
C35_ResultOnOwnRecord ==
    \A t \in tasks :
        /\ spinHistory # <<>>
        /\ spinHistory[1].timestamp = t.sid
        /\ spinHistory[1].winner.address = t.winner
        /\ (t.result # None /\ t.result[1].success /\ t.result[1].distributed > 0) =>
               /\ spinHistory[1].distribution = Some(t.result[1].distributed)
               /\ spinHistory[1].txSignature = Some(Sig(t.sid, 3))
               /\ \A i \in 2..Len(spinHistory) :
                      spinHistory[i].txSignature # Some(Sig(t.sid, 3))

\* C35 happens: the second spin of the run was paid, and its result is on
\* the newest record, above the record of the first spin
C35_Witness ==
    \E t \in tasks :
        /\ t.sid = 2
        /\ t.result # None /\ t.result[1].distributed > 0
        /\ spinHistory[1].distribution = Some(t.result[1].distributed)
        /\ spinHistory[2].timestamp = 1
        /\ spinHistory[2].winner.address # t.winner

\* C36: a record of this run carries a distribution amount only with the
\* signature and the address of the third transfer (hop2 to winner) of its
\* spin; for the latest spin the three transfers of the chain were all
\* confirmed, in order, each TX_FEE below the one before, and the amount of
\* the record is the amount of the third.
C36_PaidOnlyAfterThreeHops ==
    \A i \in DOMAIN spinHistory :
        LET record == spinHistory[i]
        IN  (record.timestamp > 0 /\ record.distribution # None) =>
                /\ record.distribution[1] > 0
                /\ record.txSignature = Some(Sig(record.timestamp, 3))
                /\ record.solscanUrl = Some(TxUrl(Sig(record.timestamp, 3)))
                /\ record.timestamp = nSpins =>
                       /\ Len(transfers) = 3
                       /\ \A h \in 1..3 :
                              /\ transfers[h].sid = nSpins
                              /\ transfers[h].hop = h
                              /\ transfers[h].status = "confirmed"
                              /\ transfers[h].amount =
                                     transfers[1].amount - (h - 1) * TX_FEE
                       /\ record.distribution[1] = transfers[3].amount

\* C36 happens: the latest spin was paid after three confirmed transfers,
\* and the record of the spin before it, whose chain failed, has no amount
C36_Witness ==
    /\ nSpins = 2
    /\ Len(spinHistory) >= 2
    /\ spinHistory[1].timestamp = 2
    /\ spinHistory[1].distribution = Some(5985)
    /\ spinHistory[2].timestamp = 1
    /\ spinHistory[2].distribution = None
    /\ Len(transfers) = 3

\* C37: once every fetch that was started has returned, the cache holds the
\* result of the fetch that was started last, and the segments built from it.
C37_LastStartedWins ==
    LET n == Len(fetches.started)
    IN  (n > 0 /\ fetches.done = 1..n) =>
            /\ currentHolders = getTokenHolders(fetches.started[n])
            /\ currentWheelData = processHoldersForWheel(currentHolders)

\* C38: the auto-spin interval starts a spin only at an instant at which
\* the countdown computed from lastSpinTime has reached zero.
C38_TimerSpinAtZero ==
    [][(now' # now /\ nSpins' # nSpins) =>
          getTimeUntilNextSpin(lastSpinTime, SPIN_INTERVAL, now') = 0]_vars

\* C39: the claimed amount a distribution has computed from its two
\* balance snapshots is what its own claim step collected.
C39_ClaimedIsOwnClaim ==
    \A t \in tasks :
        /\ t.pc = "hop" => t.claimedAmount = chain.collected
        /\ (t.result # None /\ t.result[1].claimed > 0) =>
               t.result[1].claimed = chain.collected

\* C40: of a payout of P lamports the three transfers carry P - f, P - 2f
\* and P - 3f; a hop account never submits a transfer whose amount and fee
\* exceed what it holds; after a successful chain both hop accounts are
\* empty; and of a payout of at most 3f + 0.001 SOL nothing is submitted.
C40_HopAmounts ==
    /\ \A h \in DOMAIN hops.sent :
           /\ hops.sent[h].amount = hops.payout - h * FeeLamports
           /\ hops.sent[h].amount + FeeLamports <= hops.sent[h].funds
    /\ hops.outcome = "success" => hops.hop1 = 0 /\ hops.hop2 = 0
    /\ TooSmall(hops.payout) => hops.sent = <<>>

====
